---- MODULE Spec2Model ----
(***************************************************************************)
(* A model of excel_analysis.py: the table loader (load_data with its     *)
(* merged-cell normalisation), the row-filter loop, the column selection,  *)
(* the export section and the page-layout arithmetic of convert_df_to_pdf. *)
(*                                                                         *)
(* Four specifications share the variables:                                *)
(*   SpecLoad     one call of load_data on a bounded worksheet;            *)
(*   SpecView     runs of the script body below the upload, on a loaded    *)
(*                table (filter loop, column selection, export section);   *)
(*   SpecPdf      one call of convert_df_to_pdf on a bounded table;        *)
(*   SpecProject  the column-selection step applied to any request.        *)
(***************************************************************************)
EXTENDS Integers, Sequences, FiniteSets, TLC

VARIABLES
    \* ---- load_data
    ws,              \* the worksheet: cell (row, column) -> value, 1-based
    ws0,             \* the worksheet as read from the file (history)
    merged,          \* ws.merged_cells.ranges
    merged0,         \* the merge ranges of the file (history)
    pending,         \* the ranges list(ws.merged_cells.ranges) still to visit
    header_row,      \* argument header_row
    handle_merged,   \* argument handle_merged
    loaded,          \* what load_data returned
    lpc,             \* position in load_data
    \* ---- script body
    df_original,     \* the loaded table
    df_filtered,     \* the table the filter loop narrows
    filter_cols,     \* the columns chosen in "row_filter_cols", in order
    filter_pos,      \* how many of filter_cols the loop has processed
    selected_values, \* column -> the values chosen in "row_val_<col>"
    selected_columns,\* the value of "final_view_cols"
    df_final,        \* the table after column selection
    exported,        \* the renderers the export section has invoked
    vpc,             \* position in the script body
    \* ---- convert_df_to_pdf
    pdf_df,          \* the table passed in: column count, row count, cell text
    total_page_width,
    col_width,
    pdf_out,         \* what the call produced
    ppc              \* position in convert_df_to_pdf

loadVars == <<ws, ws0, merged, merged0, pending, header_row, handle_merged, loaded, lpc>>
viewVars == <<df_original, df_filtered, filter_cols, filter_pos, selected_values,
              selected_columns, df_final, exported, vpc>>
pdfVars  == <<pdf_df, total_page_width, col_width, pdf_out, ppc>>
vars     == <<loadVars, viewVars, pdfVars>>

---------------------------------------------------------------------------
(* Values.  A cell holds None, a string or a number; a column label is a   *)
(* string or a number.  The three shapes are records with different field  *)
(* names, so that a string never equals a number.                          *)

None == [none |-> TRUE]
S(x) == [str |-> x]
N(i) == [int |-> i]

IsStr(v)  == "str" \in DOMAIN v
IsInt(v)  == "int" \in DOMAIN v

\* The decimal digits of the small numbers the model formats.
Digits == <<"0", "1", "2", "3", "4", "5", "6", "7", "8", "9">>

\* Python's str() of a non-negative number below 100.
IntToStr(i) ==
    IF i < 10 THEN Digits[i + 1]
    ELSE Digits[(i \div 10) + 1] \o Digits[(i % 10) + 1]

\* Python's str() of a cell value: a string is itself, a number its digits.
Str(v) ==
    IF IsStr(v) THEN v.str
    ELSE IF IsInt(v) THEN IntToStr(v.int)
    ELSE "None"

\* The worksheet: its columns, and the bounds on its rows and merge ranges.
SheetColumns == <<"A", "B">>
NumCols == Len(SheetColumns)
NumRows == 3
MaxRanges == 2

\* The values a cell of the worksheet may hold.
CellValues == {None, S("1"), N(1)}

Cells == (1..NumRows) \X (1..NumCols)

\* A merge range: a rectangle of more than one cell (range_.bounds).
AllRanges ==
    {r \in [min_row : 1..NumRows, max_row : 1..NumRows,
            min_col : 1..NumCols, max_col : 1..NumCols] :
        /\ r.min_row <= r.max_row
        /\ r.min_col <= r.max_col
        /\ (r.min_row < r.max_row \/ r.min_col < r.max_col)}

InRange(r, cell) ==
    /\ r.min_row <= cell[1] /\ cell[1] <= r.max_row
    /\ r.min_col <= cell[2] /\ cell[2] <= r.max_col

Anchor(r) == <<r.min_row, r.min_col>>

Overlap(r1, r2) == \E cell \in Cells : InRange(r1, cell) /\ InRange(r2, cell)

RECURSIVE RangeSetsUpTo(_)
\* The sets of at most k pairwise non-overlapping merge ranges.
RangeSetsUpTo(k) ==
    IF k = 0 THEN {{}}
    ELSE LET smaller == RangeSetsUpTo(k - 1)
         IN  smaller \cup
             {rs \cup {r} : <<rs, r>> \in
                 {p \in smaller \X AllRanges :
                     \A q \in p[1] : ~Overlap(q, p[2])}}

\* A worksheet as openpyxl presents it after load_workbook: inside a merge
\* range only the anchor holds a value, the other cells are MergedCells,
\* whose value is None.
FileSheets(rs) ==
    {w \in [Cells -> CellValues] :
        \A r \in rs : \A cell \in Cells :
            (InRange(r, cell) /\ cell # Anchor(r)) => w[cell] = None}

---------------------------------------------------------------------------
(* Tables (DataFrames): column labels, and rows of positional values.      *)

\* load_data's None (after st.error), and a DataFrame: its column labels, its
\* rows of positional values and its row labels (a fresh RangeIndex 0 .. n-1).
NoTable == [kind |-> "none", columns |-> <<>>, rows |-> <<>>, index |-> <<>>]
Table(columns, rows) ==
    [kind |-> "table", columns |-> columns, rows |-> rows,
     index |-> [i \in 1..Len(rows) |-> i - 1]]

\* ws.values: the rows of the worksheet, top to bottom.
AllRows(w) == [i \in 1..NumRows |-> [j \in 1..NumCols |-> w[<<i, j>>]]]

\* The rows of a sequence from index `from` (1-based) on: all_rows[from-1:].
RowsFrom(rows, from) ==
    IF from > Len(rows) THEN <<>> ELSE SubSeq(rows, from, Len(rows))

\* headers = [str(h) if h is not None else f"Unnamed: {idx}" ...]
Headers(raw_headers) ==
    [j \in 1..Len(raw_headers) |->
        IF raw_headers[j] # None
        THEN S(Str(raw_headers[j]))
        ELSE S("Unnamed: " \o IntToStr(j - 1))]

\* pd.DataFrame(all_rows): the default labels 0 .. n-1 (a RangeIndex).
DefaultColumns(rows) ==
    IF Len(rows) = 0 THEN <<>> ELSE [j \in 1..Len(rows[1]) |-> N(j - 1)]

\* The slice with the data starting at the header row itself.
SliceFromHeader(all_rows, h) ==
    IF h < Len(all_rows)
    THEN LET raw_headers == all_rows[h + 1]
         IN  Table(Headers(raw_headers), RowsFrom(all_rows, h + 1))
    ELSE Table(DefaultColumns(all_rows), all_rows)

\* Lines 57-66: the header row names the columns and the rows after it are
\* the data; a header index past the last row returns every row as data.
SliceTable(all_rows, h) ==
    IF h < Len(all_rows)
    THEN LET raw_headers == all_rows[h + 1]
         IN  Table(Headers(raw_headers), RowsFrom(all_rows, h + 2))
    ELSE Table(DefaultColumns(all_rows), all_rows)

\* pandas' header labels: a null cell is "Unnamed: i", any other cell keeps
\* its value, and a label seen k times before gets the suffix ".k".
PdLabels(raw_headers) ==
    LET base == [j \in 1..Len(raw_headers) |->
                    IF raw_headers[j] = None
                    THEN S("Unnamed: " \o IntToStr(j - 1))
                    ELSE raw_headers[j]]
        seen(j) == Cardinality({i \in 1..(j - 1) : base[i] = base[j]})
    IN  [j \in 1..Len(raw_headers) |->
            IF seen(j) = 0 THEN base[j]
            ELSE S(Str(base[j]) \o "." \o IntToStr(seen(j)))]

\* pd.read_excel(file, header=header_row) inside load_data's try: a header
\* index past the last row raises, and load_data returns None.
ReadExcel(w, h) ==
    LET all_rows == AllRows(w)
    IN  IF h < Len(all_rows)
        THEN Table(PdLabels(all_rows[h + 1]), RowsFrom(all_rows, h + 2))
        ELSE NoTable

\* Filling past the range's last column.
FillRangeWide(w, r, v) ==
    [cell \in Cells |->
        IF /\ r.min_row <= cell[1] /\ cell[1] <= r.max_row
           /\ r.min_col <= cell[2] /\ cell[2] <= r.max_col + 1
        THEN v ELSE w[cell]]

\* Lines 45-47: every cell of the range takes the value.
FillRange(w, r, v) ==
    [cell \in Cells |-> IF InRange(r, cell) THEN v ELSE w[cell]]

---------------------------------------------------------------------------
(* load_data                                                               *)

LoadInit ==
    /\ merged0 \in RangeSetsUpTo(MaxRanges)
    /\ ws0 \in FileSheets(merged0)
    /\ ws = ws0
    /\ merged = merged0
    /\ pending = {}
    /\ header_row \in 0..NumRows
    /\ handle_merged \in BOOLEAN
    /\ loaded = NoTable
    /\ lpc = "start"

\* Line 24: the pandas path.
LoadPlain ==
    /\ lpc = "start"
    /\ ~handle_merged
    /\ loaded' = ReadExcel(ws, header_row)
    /\ lpc' = "done"
    /\ UNCHANGED <<ws, ws0, merged, merged0, pending, header_row, handle_merged>>
    /\ UNCHANGED <<viewVars, pdfVars>>

\* Lines 27-37: open the workbook and copy the list of merge ranges.
LoadWorkbook ==
    /\ lpc = "start"
    /\ handle_merged
    /\ pending' = merged
    /\ lpc' = "unmerge"
    /\ UNCHANGED <<ws, ws0, merged, merged0, header_row, handle_merged, loaded>>
    /\ UNCHANGED <<viewVars, pdfVars>>

\* Lines 37-47: one iteration of the unmerge loop.
UnmergeRange ==
    /\ lpc = "unmerge"
    /\ \E range_ \in pending :
        LET top_left_value == ws[Anchor(range_)]
        IN  /\ merged' = merged \ {range_}
            /\ ws' = FillRange(ws, range_, top_left_value)
            /\ pending' = pending \ {range_}
    /\ UNCHANGED <<ws0, merged0, header_row, handle_merged, loaded, lpc>>
    /\ UNCHANGED <<viewVars, pdfVars>>

\* Lines 49-66: extract the rows and slice header and data.
ExtractRows ==
    /\ lpc = "unmerge"
    /\ pending = {}
    /\ loaded' = SliceTable(AllRows(ws), header_row)
    /\ lpc' = "done"
    /\ UNCHANGED <<ws, ws0, merged, merged0, pending, header_row, handle_merged>>
    /\ UNCHANGED <<viewVars, pdfVars>>

LoadNext == LoadPlain \/ LoadWorkbook \/ UnmergeRange \/ ExtractRows

\* The loader at rest, for the specifications that do not run it.
LoadIdle ==
    /\ ws = [cell \in Cells |-> None]
    /\ ws0 = ws
    /\ merged = {}
    /\ merged0 = {}
    /\ pending = {}
    /\ header_row = 0
    /\ handle_merged = FALSE
    /\ loaded = NoTable
    /\ lpc = "idle"

---------------------------------------------------------------------------
(* The script body: row filters, column selection.                         *)

\* Bound of the tables the script body runs on.
MaxRows == 2

\* all_columns of the loaded table, and a label no table carries.
AllColumns == <<S("Region"), S("Item")>>
Missing == S("Missing")

\* The values a cell of a loaded table may hold (None: NaN).
ViewValues == {None, S("A"), S("B")}

ColumnSet(df) == {df.columns[j] : j \in 1..Len(df.columns)}

\* The tables load_data may hand to the script body.
ViewTables ==
    UNION {{Table(AllColumns, rows) :
                rows \in [1..n -> [1..Len(AllColumns) -> ViewValues]]} :
           n \in 0..MaxRows}

\* The ordered lists without repetition over a set of labels: what a
\* multiselect over these options can return.
RECURSIVE Orderings(_)
Orderings(labels) ==
    {<<>>} \cup UNION {{<<c>> \o rest : rest \in Orderings(labels \ {c})} : c \in labels}

\* The position of a label among a table's columns.
ColPos(df, col) == CHOOSE j \in 1..Len(df.columns) : df.columns[j] = col

\* df[col]: the column's values, row by row.
Column(df, col) == [i \in 1..Len(df.rows) |-> df.rows[i][ColPos(df, col)]]

\* df[col].dropna().unique()
UniqueValues(df, col) ==
    {Column(df, col)[i] : i \in 1..Len(df.rows)} \ {None}

\* isin that lets a null value through.
IsinOrNull(v, values) == v = None \/ v \in values

\* Series.isin(values), for one value: NaN matches only a NaN among values.
Isin(v, values) == v \in values

\* df[mask]: the rows at the kept positions, with their row labels.
TakeRows(df, kept) ==
    [df EXCEPT !.rows = [k \in 1..Len(kept) |-> df.rows[kept[k]]],
               !.index = [k \in 1..Len(kept) |-> df.index[kept[k]]]]

\* df[df[col].isin(values)]
FilterRows(df, col, values) ==
    TakeRows(df, SelectSeq([i \in 1..Len(df.rows) |-> i],
                           LAMBDA i : Isin(df.rows[i][ColPos(df, col)], values)))

\* An empty selection applying no filter at all.
ApplyFilterShowAll(df, col, selected) ==
    IF selected # {} THEN FilterRows(df, col, selected) ELSE df

\* Lines 250-254.
ApplyFilter(df, col, selected) ==
    IF selected # {}
    THEN FilterRows(df, col, selected)
    ELSE FilterRows(df, col, {})

\* pd.DataFrame(): no columns, no rows.
EmptyFrame == Table(<<>>, <<>>)

\* df[selected_columns] raising KeyError for a label the table lacks.
KeyError == [kind |-> "KeyError", columns |-> <<>>, rows |-> <<>>, index |-> <<>>]

\* df[selected_columns]: the requested columns, in the requested order.
TakeColumns(df, cols) ==
    IF \E k \in 1..Len(cols) : cols[k] \notin ColumnSet(df)
    THEN KeyError
    ELSE [df EXCEPT !.columns = cols,
                    !.rows = [i \in 1..Len(df.rows) |->
                                [k \in 1..Len(cols) |-> df.rows[i][ColPos(df, cols[k])]]]]

\* The selection keeping the table's own column order.
SelectColumnsUnordered(df, cols) ==
    IF cols # <<>>
    THEN TakeColumns(df, SelectSeq(df.columns,
                                   LAMBDA c : \E k \in 1..Len(cols) : cols[k] = c))
    ELSE EmptyFrame

\* Lines 275-279.
SelectColumns(df, cols) ==
    IF cols # <<>> THEN TakeColumns(df, cols) ELSE EmptyFrame

\* DataFrame.empty: some axis has length 0.
Empty(df) == Len(df.columns) = 0 \/ Len(df.rows) = 0

\* An export section with no guard.
ExportGuardAlways(df) == TRUE

\* Line 289.
ExportGuard(df) == ~Empty(df)

---------------------------------------------------------------------------
(* convert_df_to_pdf                                                       *)

\* reportlab.lib.units.inch, in points.
Inch == 72

\* Bounds of the tables convert_df_to_pdf is called on.
MaxPdfCols == 8
MaxPdfRows == 1

\* Cell and header texts: plain, with a newline, with an unclosed markup tag.
PdfTexts == {"x", "a\nb", "<b>x"}

\* text.replace("\n", "<br/>")
ReplaceNewline(text) == IF text = "a\nb" THEN "a<br/>b" ELSE text

\* Whether Paragraph(text, style) parses: ReportLab rejects markup it cannot
\* parse with a ValueError from the constructor.
ParagraphParses(text) == text # "<b>x"

\* The table as convert_df_to_pdf reads it: its column count, its row count
\* and the texts of its headers and cells.
PdfInputs ==
    {d \in [num_cols : 0..MaxPdfCols, num_rows : 0..MaxPdfRows, texts : SUBSET PdfTexts] :
        (d.texts = {}) <=> (d.num_cols = 0)}

\* str(item) if pd.notna(item) else ""
CellText(v) == IF v = None THEN "" ELSE Str(v)

PdfArgument(df) ==
    [num_cols |-> Len(df.columns),
     num_rows |-> Len(df.rows),
     texts |-> {Str(df.columns[j]) : j \in 1..Len(df.columns)} \cup
               {CellText(df.rows[i][j]) : <<i, j>> \in
                    (1..Len(df.rows)) \X (1..Len(df.columns))}]

Max(a, b) == IF a >= b THEN a ELSE b

\* min_col_width = 1.5 * inch
MinColWidth == (3 * Inch) \div 2

\* leftMargin, rightMargin = 0.5 * inch
LeftMargin == Inch \div 2
RightMargin == Inch \div 2

\* A page that never grows.
TotalPageWidthFixed(num_cols) == 11 * Inch

\* Line 86.
TotalPageWidth(num_cols) == Max(11 * Inch, num_cols * MinColWidth + 1 * Inch)

\* The whole page taken as available.
AvailableWidthNoMargin(page_width) == page_width

\* Line 125.
AvailableWidth(page_width) == page_width - 1 * Inch

\* Line 126, for num_cols # 0.
ColWidth(page_width, num_cols) == AvailableWidth(page_width) \div num_cols

NoOutput == [kind |-> "pending"]
Raised(exception) == [kind |-> "raised", exception |-> exception]
ReturnedNone == [kind |-> "None"]
ReturnedBytes == [kind |-> "bytes"]

PdfIdle ==
    /\ pdf_df = [num_cols |-> 0, num_rows |-> 0, texts |-> {}]
    /\ total_page_width = 0
    /\ col_width = 0
    /\ pdf_out = NoOutput
    /\ ppc = "idle"

PdfInit ==
    /\ pdf_df \in PdfInputs
    /\ total_page_width = 0
    /\ col_width = 0
    /\ pdf_out = NoOutput
    /\ ppc = "size"

\* Lines 84-98: the page size.
PageSize ==
    /\ ppc = "size"
    /\ total_page_width' = TotalPageWidth(pdf_df.num_cols)
    /\ ppc' = "paragraphs"
    /\ UNCHANGED <<pdf_df, col_width, pdf_out>>
    /\ UNCHANGED <<loadVars, viewVars>>

\* Lines 113-123: every header and cell becomes a Paragraph; a text that
\* does not parse raises out of the constructor.
Paragraphs ==
    /\ ppc = "paragraphs"
    /\ IF \A t \in pdf_df.texts : ParagraphParses(ReplaceNewline(t))
       THEN ppc' = "width" /\ UNCHANGED pdf_out
       ELSE ppc' = "done" /\ pdf_out' = Raised("ValueError")
    /\ UNCHANGED <<pdf_df, total_page_width, col_width>>
    /\ UNCHANGED <<loadVars, viewVars>>

\* Lines 125-128: the column width; the division raises for no columns.
ColumnWidth ==
    /\ ppc = "width"
    /\ IF pdf_df.num_cols = 0
       THEN /\ ppc' = "done"
            /\ pdf_out' = Raised("ZeroDivisionError")
            /\ UNCHANGED col_width
       ELSE /\ col_width' = ColWidth(total_page_width, pdf_df.num_cols)
            /\ ppc' = "build"
            /\ UNCHANGED pdf_out
    /\ UNCHANGED <<pdf_df, total_page_width>>
    /\ UNCHANGED <<loadVars, viewVars>>

\* Lines 148-153: the build step, whose failure is caught.
Build ==
    /\ ppc = "build"
    /\ \E built \in BOOLEAN :
        pdf_out' = IF built THEN ReturnedBytes ELSE ReturnedNone
    /\ ppc' = "done"
    /\ UNCHANGED <<pdf_df, total_page_width, col_width>>
    /\ UNCHANGED <<loadVars, viewVars>>

PdfNext == PageSize \/ Paragraphs \/ ColumnWidth \/ Build

---------------------------------------------------------------------------
(* The script body below the upload, lines 210-319.                        *)

NoSelection == [c \in ColumnSet(Table(AllColumns, <<>>)) |-> {}]

\* Lines 213-215: a run starts from a copy of the loaded table.
RunStart(df) ==
    /\ df_original = df
    /\ df_filtered = df
    /\ filter_cols = <<>>
    /\ filter_pos = 0
    /\ selected_values = NoSelection
    /\ selected_columns = <<>>
    /\ df_final = EmptyFrame
    /\ exported = {}

ViewInit ==
    /\ \E df \in ViewTables : RunStart(df)
    /\ vpc = "filters"

ViewIdle ==
    /\ RunStart(EmptyFrame)
    /\ vpc = "idle"

\* Lines 223-229: the reset button empties "row_filter_cols", drops every
\* "row_val_" key and reruns the script, whose filter loop then has nothing
\* to do.
ResetRowFilters ==
    /\ vpc = "filters"
    /\ filter_cols' = <<>>
    /\ selected_values' = NoSelection
    /\ filter_pos' = 0
    /\ vpc' = "loop"
    /\ UNCHANGED <<df_original, df_filtered, selected_columns, df_final, exported>>
    /\ UNCHANGED <<loadVars, pdfVars>>

\* Lines 234-238: the columns to filter by, in the order chosen.
ChooseFilterColumns ==
    /\ vpc = "filters"
    /\ filter_cols' \in Orderings(ColumnSet(df_filtered))
    /\ filter_pos' = 0
    /\ vpc' = "loop"
    /\ UNCHANGED <<df_original, df_filtered, selected_values, selected_columns,
                   df_final, exported>>
    /\ UNCHANGED <<loadVars, pdfVars>>

\* Lines 241-254: one iteration of the filter loop.
FilterColumn ==
    /\ vpc = "loop"
    /\ filter_pos < Len(filter_cols)
    /\ LET col == filter_cols[filter_pos + 1]
           unique_values == UniqueValues(df_original, col)
       IN  \E selected \in SUBSET unique_values :
            /\ selected_values' = [selected_values EXCEPT ![col] = selected]
            /\ df_filtered' = ApplyFilter(df_filtered, col, selected)
    /\ filter_pos' = filter_pos + 1
    /\ UNCHANGED <<df_original, filter_cols, selected_columns, df_final, exported, vpc>>
    /\ UNCHANGED <<loadVars, pdfVars>>

\* Lines 263-265: the reset button sets "final_view_cols" to all columns and
\* reruns the script, whose selection is then every column.
ResetColumnSelection ==
    /\ vpc = "loop"
    /\ filter_pos = Len(filter_cols)
    /\ selected_columns' = df_original.columns
    /\ df_final' = SelectColumns(df_filtered, selected_columns')
    /\ vpc' = "export"
    /\ UNCHANGED <<df_original, df_filtered, filter_cols, filter_pos, selected_values,
                   exported>>
    /\ UNCHANGED <<loadVars, pdfVars>>

\* Lines 267-279: the columns of the final view, in the order chosen.
ColumnSelection ==
    /\ vpc = "loop"
    /\ filter_pos = Len(filter_cols)
    /\ selected_columns' \in Orderings(ColumnSet(df_original))
    /\ df_final' = SelectColumns(df_filtered, selected_columns')
    /\ vpc' = "export"
    /\ UNCHANGED <<df_original, df_filtered, filter_cols, filter_pos, selected_values,
                   exported>>
    /\ UNCHANGED <<loadVars, pdfVars>>

\* Lines 289-304: a table that is not empty is converted to Excel bytes for
\* its download button, and the PDF button is shown.
ExportExcel ==
    /\ vpc = "export"
    /\ ExportGuard(df_final)
    /\ exported' = exported \cup {"excel"}
    /\ vpc' = "offer"
    /\ UNCHANGED <<df_original, df_filtered, filter_cols, filter_pos, selected_values,
                   selected_columns, df_final>>
    /\ UNCHANGED <<loadVars, pdfVars>>

\* Lines 318-319: nothing to export.
NoExport ==
    /\ vpc = "export"
    /\ ~ExportGuard(df_final)
    /\ vpc' = "done"
    /\ UNCHANGED <<df_original, df_filtered, filter_cols, filter_pos, selected_values,
                   selected_columns, df_final, exported>>
    /\ UNCHANGED <<loadVars, pdfVars>>

\* Lines 307-308: the PDF button calls convert_df_to_pdf(df_final).
GeneratePdf ==
    /\ vpc = "offer"
    /\ exported' = exported \cup {"pdf"}
    /\ pdf_df' = PdfArgument(df_final)
    /\ total_page_width' = 0
    /\ col_width' = 0
    /\ pdf_out' = NoOutput
    /\ ppc' = "size"
    /\ vpc' = "pdf"
    /\ UNCHANGED <<df_original, df_filtered, filter_cols, filter_pos, selected_values,
                   selected_columns, df_final>>
    /\ UNCHANGED loadVars

\* Lines 309-317: the call is over: a download button for the bytes, an
\* error message for None, and a raised exception leaves the script.
PdfReturn ==
    /\ vpc = "pdf"
    /\ ppc = "done"
    /\ vpc' = "done"
    /\ UNCHANGED <<df_original, df_filtered, filter_cols, filter_pos, selected_values,
                   selected_columns, df_final, exported>>
    /\ UNCHANGED <<loadVars, pdfVars>>

\* The next interaction runs the script again on the cached table.
Rerun ==
    /\ vpc \in {"offer", "done"}
    /\ df_original' = df_original
    /\ df_filtered' = df_original
    /\ filter_cols' = <<>>
    /\ filter_pos' = 0
    /\ selected_values' = NoSelection
    /\ selected_columns' = <<>>
    /\ df_final' = EmptyFrame
    /\ exported' = {}
    /\ vpc' = "filters"
    /\ pdf_df' = [num_cols |-> 0, num_rows |-> 0, texts |-> {}]
    /\ total_page_width' = 0
    /\ col_width' = 0
    /\ pdf_out' = NoOutput
    /\ ppc' = "idle"
    /\ UNCHANGED loadVars

\* The column-selection step applied to any request, a label the table
\* lacks included.
ProjectInit ==
    /\ \E df \in ViewTables : RunStart(df)
    /\ vpc = "project"

ProjectRequest ==
    /\ vpc = "project"
    /\ selected_columns' \in Orderings(ColumnSet(df_filtered) \cup {Missing})
    /\ df_final' = SelectColumns(df_filtered, selected_columns')
    /\ vpc' = "projected"
    /\ UNCHANGED <<df_original, df_filtered, filter_cols, filter_pos, selected_values,
                   exported>>
    /\ UNCHANGED <<loadVars, pdfVars>>

---------------------------------------------------------------------------
(* Specifications.                                                         *)

InitLoad == LoadInit /\ ViewIdle /\ PdfIdle

SpecLoad == InitLoad /\ [][LoadNext]_vars

InitView == LoadIdle /\ ViewInit /\ PdfIdle

ViewNext ==
    \/ ResetRowFilters
    \/ ChooseFilterColumns
    \/ FilterColumn
    \/ ResetColumnSelection
    \/ ColumnSelection
    \/ ExportExcel
    \/ NoExport
    \/ GeneratePdf
    \/ PdfNext
    \/ PdfReturn
    \/ Rerun

SpecView == InitView /\ [][ViewNext]_vars

InitPdf == LoadIdle /\ ViewIdle /\ PdfInit

SpecPdf == InitPdf /\ [][PdfNext]_vars

InitProject == LoadIdle /\ ProjectInit /\ PdfIdle

SpecProject == InitProject /\ [][ProjectRequest]_vars

---------------------------------------------------------------------------
(* Properties of load_data, under SpecLoad.                                *)

OutsideAllRanges(cell) == \A r \in merged0 : ~InRange(r, cell)

AfterUnmergeLoop == handle_merged /\ lpc \in {"unmerge", "done"} /\ pending = {}

\* C1: after the unmerge loop over non-overlapping merge ranges, every cell
\* inside a range holds the value the range's top-left cell held in the file,
\* and every cell outside all ranges holds the value it held in the file.
C1_UnmergeReplicatesAnchor ==
    AfterUnmergeLoop =>
        /\ \A r \in merged0 : \A cell \in Cells :
               InRange(r, cell) => ws[cell] = ws0[Anchor(r)]
        /\ \A cell \in Cells : OutsideAllRanges(cell) => ws[cell] = ws0[cell]

\* The loop has run over two ranges with different anchor values.
C1_Witness ==
    /\ AfterUnmergeLoop
    /\ lpc = "done"
    /\ \E r1, r2 \in merged0 :
        /\ r1 # r2
        /\ ws0[Anchor(r1)] # None
        /\ ws0[Anchor(r2)] # ws0[Anchor(r1)]
        /\ \E cell \in Cells : cell # Anchor(r1) /\ ws[cell] = ws0[Anchor(r1)]

PairwiseDistinct(seq) ==
    \A i, j \in 1..Len(seq) : i # j => seq[i] # seq[j]

\* C5: the column names of every table load_data returns are pairwise
\* distinct and none is empty, a null header cell at 0-based position i being
\* named "Unnamed: i".
C5_ColumnNamesDistinct ==
    (lpc = "done" /\ loaded.kind = "table") =>
        /\ PairwiseDistinct(loaded.columns)
        /\ \A j \in 1..Len(loaded.columns) : Str(loaded.columns[j]) # ""
        /\ header_row < NumRows =>
            \A j \in 1..NumCols :
                ws[<<header_row + 1, j>>] = None =>
                    loaded.columns[j] = S("Unnamed: " \o IntToStr(j - 1))

MergePathNoRanges == handle_merged /\ merged0 = {} /\ lpc = "done"

\* The rows of the file's sheet after the header row, and the names its
\* header row gives.
RowsAfterHeader ==
    [i \in 1..(NumRows - header_row - 1) |->
        [j \in 1..NumCols |-> ws0[<<header_row + 1 + i, j>>]]]

HeaderRowNames ==
    [j \in 1..NumCols |->
        LET h == ws0[<<header_row + 1, j>>]
        IN  IF h = None THEN S("Unnamed: " \o IntToStr(j - 1)) ELSE S(Str(h))]

\* C8 as stated: on a sheet without merge ranges the merge path has the
\* outcome of the non-merge path: the header row names the columns and the
\* rows after it are the data, and where the non-merge path fails the merge
\* path returns no table.
C8_MergePathAsPlainPath ==
    MergePathNoRanges =>
        LET plain == ReadExcel(ws0, header_row)
        IN  /\ plain.kind = "none" => loaded.kind = "none"
            /\ plain.kind = "table" =>
                /\ loaded.kind = "table"
                /\ loaded.rows = plain.rows
                /\ Len(loaded.columns) = Len(plain.columns)

\* C8, amended: on a sheet without merge ranges and for a header index below
\* the number of rows, the merge path returns a table whose column names come
\* from the header row and whose data rows are exactly the rows after it; for
\* a header index at or beyond the number of rows it returns a table with
\* every row as data under the default labels 0 .. n-1.
C8_MergePathSlices ==
    MergePathNoRanges =>
        /\ loaded.kind = "table"
        /\ IF header_row < NumRows
           THEN /\ loaded.columns = HeaderRowNames
                /\ loaded.rows = RowsAfterHeader
           ELSE /\ loaded.columns = [j \in 1..NumCols |-> N(j - 1)]
                /\ Len(loaded.rows) = NumRows
                /\ \A i \in 1..NumRows : \A j \in 1..NumCols :
                       loaded.rows[i][j] = ws0[<<i, j>>]

\* The header index is past the last row and the merge path returned a table
\* where the non-merge path fails.
C8_Witness ==
    /\ MergePathNoRanges
    /\ header_row >= NumRows
    /\ loaded.kind = "table"
    /\ ReadExcel(ws0, header_row).kind = "none"
    /\ \E cell \in Cells : ws0[cell] # None

---------------------------------------------------------------------------
(* Properties of the script body, under SpecView.                          *)

\* The filter loop has processed an empty selection.
SomeEmptySelection ==
    \E k \in 1..filter_pos : selected_values[filter_cols[k]] = {}

\* C2: the filter loop never yields more rows than the loaded table has,
\* and once a chosen column's selection is empty the filtered table has no
\* rows, wherever that column stands among the chosen columns.
C2_FilterShrinks ==
    /\ Len(df_filtered.rows) <= Len(df_original.rows)
    /\ SomeEmptySelection => Len(df_filtered.rows) = 0

\* An empty selection came first, and a non-empty one after it that every
\* row of the loaded table satisfies.
C2_Witness ==
    /\ filter_pos = 2
    /\ selected_values[filter_cols[1]] = {}
    /\ selected_values[filter_cols[2]] # {}
    /\ Len(df_original.rows) = MaxRows
    /\ \A i \in 1..Len(df_original.rows) :
           Column(df_original, filter_cols[2])[i] \in selected_values[filter_cols[2]]
    /\ Len(df_filtered.rows) = 0

\* Whether row i of the loaded table satisfies every chosen column's filter.
Allowed(i) ==
    \A k \in 1..Len(filter_cols) :
        df_original.rows[i][ColPos(df_original, filter_cols[k])]
            \in selected_values[filter_cols[k]]

AllowedPositions ==
    SelectSeq([i \in 1..Len(df_original.rows) |-> i], Allowed)

\* C7: after the filter loop a row is retained if and only if its value in
\* every filtered column is in that column's allowed set, whatever the order
\* of the columns; a retained row has no null in a filtered column unless
\* null is in the allowed set.
C7_FilterIsConjunction ==
    filter_pos = Len(filter_cols) =>
        /\ df_filtered.index =
               [k \in 1..Len(AllowedPositions) |-> df_original.index[AllowedPositions[k]]]
        /\ df_filtered.rows =
               [k \in 1..Len(AllowedPositions) |-> df_original.rows[AllowedPositions[k]]]
        /\ \A i \in 1..Len(df_filtered.rows) : \A k \in 1..Len(filter_cols) :
               LET v == df_filtered.rows[i][ColPos(df_filtered, filter_cols[k])]
               IN  v = None => None \in selected_values[filter_cols[k]]

\* Two columns are filtered; one row is retained, one is dropped for a null
\* and one for a value outside the allowed set.
C7_Witness ==
    /\ Len(filter_cols) = 2
    /\ filter_pos = 2
    /\ Len(df_filtered.rows) >= 1
    /\ Len(df_filtered.rows) < Len(df_original.rows)
    /\ \E i \in 1..Len(df_original.rows) :
        /\ df_original.rows[i][ColPos(df_original, filter_cols[1])] = None
        /\ df_original.index[i] \notin {df_filtered.index[k] : k \in 1..Len(df_filtered.index)}

\* C10: the renderers are invoked only on a final table with at least one
\* row and one column; for a final table with no rows or no columns the
\* export section invokes nothing, and convert_df_to_pdf never divides by a
\* column count of zero.
C10_ExportOnlyNonEmpty ==
    /\ exported # {} => (Len(df_final.rows) >= 1 /\ Len(df_final.columns) >= 1)
    /\ (vpc \in {"offer", "pdf", "done"} /\ Empty(df_final)) => exported = {}
    /\ ppc # "idle" => pdf_df.num_cols >= 1
    /\ pdf_out # Raised("ZeroDivisionError")

\* No column was selected from a filtered table that has rows, and the
\* export section ended without invoking a renderer.
C10_Witness ==
    /\ vpc = "done"
    /\ selected_columns = <<>>
    /\ Len(df_filtered.rows) >= 1
    /\ Len(df_final.columns) = 0
    /\ exported = {}

---------------------------------------------------------------------------
(* Properties of the column-selection step, under SpecProject.             *)

AllRequestedPresent ==
    \A k \in 1..Len(selected_columns) : selected_columns[k] \in ColumnSet(df_filtered)

\* The final table holds the rows of the filtered table, restricted to the
\* requested columns in the requested order.
ProjectedAsRequested ==
    /\ df_final.kind = "table"
    /\ Len(df_final.rows) = Len(df_filtered.rows)
    /\ df_final.columns = selected_columns
    /\ df_final.index = df_filtered.index
    /\ \A i \in 1..Len(df_filtered.rows) : \A k \in 1..Len(selected_columns) :
           df_final.rows[i][k] =
               df_filtered.rows[i][ColPos(df_filtered, selected_columns[k])]

\* C3 as stated: for every requested list, the empty list included, the
\* selection keeps the number of rows and returns exactly the requested
\* columns in the requested order; a name the table lacks yields an error.
C3_SelectionKeepsRows ==
    vpc = "projected" =>
        IF AllRequestedPresent THEN ProjectedAsRequested
        ELSE df_final.kind = "KeyError"

\* C3, amended: for every non-empty requested list the selection keeps the
\* number of rows and returns exactly the requested columns in the requested
\* order, a name the table lacks yielding an error; for the empty list it
\* returns a table with no rows and no columns.
C3_SelectionNonEmpty ==
    vpc = "projected" =>
        IF selected_columns = <<>>
        THEN /\ df_final.kind = "table"
             /\ Len(df_final.rows) = 0
             /\ Len(df_final.columns) = 0
        ELSE IF AllRequestedPresent THEN ProjectedAsRequested
        ELSE df_final.kind = "KeyError"

\* The empty list was requested of a table with rows, and the rows are gone.
C3_Witness ==
    /\ vpc = "projected"
    /\ selected_columns = <<>>
    /\ Len(df_filtered.rows) = MaxRows
    /\ Len(df_final.rows) = 0

---------------------------------------------------------------------------
(* Properties of convert_df_to_pdf, under SpecPdf.                         *)

\* The column width has been computed.
WidthComputed ==
    \/ ppc = "build"
    \/ ppc = "done" /\ pdf_out.kind \in {"None", "bytes"}

\* C4: the page width is non-decreasing in the column count, and for a
\* column count of at least 1 the columns together are no wider than the page
\* less its left and right margins.
C4_PageWidthMonotoneAndFits ==
    /\ ppc \notin {"idle", "size"} =>
        \A c \in 0..pdf_df.num_cols : \A b \in 0..c :
            /\ TotalPageWidth(b) <= TotalPageWidth(c)
            /\ TotalPageWidth(c) <= total_page_width
    /\ (WidthComputed /\ pdf_df.num_cols >= 1) =>
        col_width * pdf_df.num_cols <= total_page_width - (LeftMargin + RightMargin)

\* A table wide enough to grow the page has been laid out and built.
C4_Witness ==
    /\ ppc = "done"
    /\ pdf_out = ReturnedBytes
    /\ pdf_df.num_cols = MaxPdfCols
    /\ total_page_width > 11 * Inch
    /\ col_width * pdf_df.num_cols = total_page_width - (LeftMargin + RightMargin)

\* C6: convert_df_to_pdf reports a failure by returning None and never by
\* an exception that leaves it; on success it returns the bytes.
C6_FailureIsNone ==
    ppc = "done" => pdf_out.kind \in {"None", "bytes"}

\* C9: for a column count of at least 1 the column width is never below
\* min_col_width.
C9_ColumnWidthFloor ==
    (WidthComputed /\ pdf_df.num_cols >= 1) => col_width >= MinColWidth

\* A table too wide for the standard page got columns of exactly the floor.
C9_Witness ==
    /\ ppc = "build"
    /\ pdf_df.num_cols * MinColWidth + 1 * Inch > 11 * Inch
    /\ col_width = MinColWidth

====
